---- MODULE Spec2Model ----
(***************************************************************************)
(* The BrainWorksApp component of components/detection.jsx (the live       *)
(* iteration, lines 2751-2914): the patient intake form held in React      *)
(* state, the file input with its preview, and the fake analysis that      *)
(* resolves after a fixed delay with a random verdict.                     *)
(*                                                                         *)
(* One action stands for one browser task: an event handler run to its end *)
(* with the state updates it queued applied, or a timer callback together  *)
(* with the continuation of the handleSubmit call that awaits it.          *)
(*                                                                         *)
(* Further specifications: BatchedSpec, in which React applies the queued  *)
(* updates of several handler calls in one render; LoginSpec, the          *)
(* login-gated iteration of the component (lines 1593-1893, commented      *)
(* out); HeroSpec, the page with the Hero of components/Hero.jsx.          *)
(***************************************************************************)
EXTENDS Integers, Sequences, FiniteSets, TLC

\* ------------------------------------------------------------------ bounds
\* Accepted submissions per page load.
MaxSubmits == 2
\* Milliseconds by which one step of the clock advances the time.
TickMs == 1500
\* A random draw k stands for the number k / RandDen of [0, 1).
RandDen == 10000

\* ------------------------------------------------------- program constants
\* setTimeout(..., 3000)
Delay == 3000

\* null, as in useState(null)
Null == [null |-> TRUE]

\* Text a user types in a text input: nothing or something.
Values == {"", "a"}

\* The names of the text inputs of the form.
TextFields == {"firstName", "lastName", "age", "phone", "email", "symptoms"}

RequiredAlert == "Please fill all required fields"
MRIAlert == "Please upload MRI image"

\* ------------------------------------------------------------------- files
\* A string that the code inspects character by character is a sequence.
ImagePrefix == <<"i", "m", "a", "g", "e", "/">>

PngType == <<"i", "m", "a", "g", "e", "/", "p", "n", "g">>

PlainType == <<"t", "e", "x", "t", "/", "p", "l", "a", "i", "n">>

\* The files a user can pick: accept="image/*" is a hint, not a filter.
Files ==
    { [name |-> "scan1.png", type |-> PngType],
      [name |-> "scan2.png", type |-> PngType],
      [name |-> "notes.txt", type |-> PlainType] }

\* String.prototype.startsWith
StartsWith(s, prefix) ==
    /\ Len(s) >= Len(prefix)
    /\ SubSeq(s, 1, Len(prefix)) = prefix

\* URL.createObjectURL(file): a URL that stands for the file's content.
CreateObjectURL(file) == [blob |-> file.name]

\* ------------------------------------------------------------------- state
VARIABLES
    formData,        \* useState({...}): the intake form
    mriPreview,      \* useState(null): object URL of the previewed image
    isAnalyzing,     \* useState(false)
    showResults,     \* useState(false)
    analysisResult,  \* useState(null)
    timers,          \* pending setTimeout callbacks, in the order they were set
    effects,         \* what the last task did to the browser: alerts, downloads
    accepted,        \* submissions that passed validation, this page load
    resolved,        \* analyses that resolved, this page load
    lastResolved,    \* the submission whose analysis resolved last (0: none)
    lastDraws,       \* the Math.random() draws of the last timer callback
    lastEvent,       \* the task that ran last
    lastFiles,       \* e.target.files of the task that ran last, if it had any
    queue,           \* state updates that React holds for the next render
    batch,           \* the updates that the render that ran last applied
    isLoggedIn,      \* useState(false) of the login-gated iteration
    showDetection    \* useState(false) of the login-gated iteration

vars ==
    << formData, mriPreview, isAnalyzing, showResults, analysisResult, timers,
       effects, accepted, resolved, lastResolved, lastDraws, lastEvent,
       lastFiles, queue, batch, isLoggedIn, showDetection >>

ui == << isAnalyzing, showResults, analysisResult >>

ghost == << accepted, resolved, lastResolved, lastDraws >>

\* The state of the login-gated iteration (lines 1593-1893), which the live
\* component does not have.
gate == << isLoggedIn, showDetection >>

\* An initial form with the checkbox ticked.
EmptyForm_MRIChecked ==
    [ firstName |-> "", lastName |-> "", age |-> "", phone |-> "",
      email |-> "", symptoms |-> "", hasMRI |-> TRUE, mriFile |-> Null ]

\* useState initial value of formData
EmptyForm ==
    [ firstName |-> "", lastName |-> "", age |-> "", phone |-> "",
      email |-> "", symptoms |-> "", hasMRI |-> FALSE, mriFile |-> Null ]

\* The component as mounted on page load.
Init ==
    /\ formData = EmptyForm
    /\ mriPreview = Null
    /\ isAnalyzing = FALSE
    /\ showResults = FALSE
    /\ analysisResult = Null
    /\ timers = << >>
    /\ effects = << >>
    /\ accepted = 0
    /\ resolved = 0
    /\ lastResolved = 0
    /\ lastDraws = << >>
    /\ lastEvent = "load"
    /\ lastFiles = << >>
    /\ queue = << >>
    /\ batch = << >>
    /\ isLoggedIn = Null
    /\ showDetection = Null

\* ------------------------------------------------------------ form editing
\* The change events the rendered inputs can deliver (e.target).
InputEvents ==
    { [name |-> n, type |-> "text", value |-> v, checked |-> FALSE] :
        n \in TextFields, v \in Values }
    \cup
    { [name |-> "hasMRI", type |-> "checkbox", value |-> "on", checked |-> c] :
        c \in BOOLEAN }

\* An update that starts from the initial form instead of the previous one.
InputUpdate_FromInitial(prev, e) ==
    [EmptyForm EXCEPT ![e.name] = IF e.type = "checkbox" THEN e.checked ELSE e.value]

\* An update that detaches the file when the checkbox is unticked.
InputUpdate_UncheckDropsFile(prev, e) ==
    [prev EXCEPT ![e.name] = IF e.type = "checkbox" THEN e.checked ELSE e.value,
                 !.mriFile = IF e.type = "checkbox" /\ ~e.checked THEN Null ELSE @]

\* An update computed from the formData of the render that created the
\* handler, as in setFormData({ ...formData, [name]: ... }).
InputUpdate_FromRendered(prev, e) ==
    [formData EXCEPT ![e.name] = IF e.type = "checkbox" THEN e.checked ELSE e.value]

\* prev => ({ ...prev, [name]: type === "checkbox" ? checked : value })
InputUpdate(prev, e) ==
    [prev EXCEPT ![e.name] = IF e.type = "checkbox" THEN e.checked ELSE e.value]

handleInputChange(e) ==
    /\ formData' = InputUpdate(formData, e)
    /\ lastEvent' = "handleInputChange"
    /\ lastFiles' = << >>
    /\ UNCHANGED << queue, batch, gate >>
    /\ effects' = << >>
    /\ UNCHANGED << mriPreview, ui, timers, ghost >>

\* The selections a file input can deliver (e.target.files).
FileLists == { << >> } \cup { << f >> : f \in Files }

\* prev => ({ ...prev, mriFile: file })
FileUpdate(prev, file) == [prev EXCEPT !.mriFile = file]

\* A handleFileChange without its early return: a cancelled selection
\* detaches the file.
handleFileChange_NoEarlyReturn(files) ==
    /\ formData.hasMRI = TRUE
    /\ lastEvent' = "handleFileChange"
    /\ lastFiles' = files
    /\ UNCHANGED << queue, batch, gate >>
    /\ IF files = << >>
       THEN /\ formData' = FileUpdate(formData, Null)
            /\ UNCHANGED mriPreview
       ELSE LET file == files[1] IN
            /\ formData' = FileUpdate(formData, file)
            /\ mriPreview' = IF StartsWith(file.type, ImagePrefix)
                             THEN CreateObjectURL(file)
                             ELSE mriPreview
    /\ effects' = << >>
    /\ UNCHANGED << ui, timers, ghost >>

\* The file input is rendered only while formData.hasMRI is true.
handleFileChange(files) ==
    /\ formData.hasMRI = TRUE
    /\ lastEvent' = "handleFileChange"
    /\ lastFiles' = files
    /\ UNCHANGED << queue, batch, gate >>
    /\ IF files = << >>
       THEN UNCHANGED << formData, mriPreview >>
       ELSE LET file == files[1] IN
            /\ formData' = FileUpdate(formData, file)
            /\ mriPreview' = IF StartsWith(file.type, ImagePrefix)
                             THEN CreateObjectURL(file)
                             ELSE mriPreview
    /\ effects' = << >>
    /\ UNCHANGED << ui, timers, ghost >>

\* ---------------------------------------------------------- fake analysis
\* The values of Math.random(), as numerators over RandDen. The first draw of
\* a callback is only compared with one half: one half itself and the next
\* value above it. The second is only scaled: the two ends of [0, 1).
DetectDraws == {RandDen \div 2, RandDen \div 2 + 1}

ConfidenceDraws == {0, RandDen - 1}

\* A comparison that also takes one half itself.
Detected_AtLeastHalf(r) == 2 * r >= RandDen

\* Math.random() > 0.5
Detected(r) == 2 * r > RandDen

\* Number.prototype.toFixed(2) of num / den: the integer n for which n / 100
\* is nearest to the number, the larger one of two that are equally near.
ToFixed2(num, den) == (2 * 100 * num + den) \div (2 * den)

\* `${(Math.random() * 20 + 80).toFixed(2)}%`: the percentage in hundredths;
\* the string shows hundredths \div 100, a point, and two digits.
Confidence(r) == ToFixed2(20 * r + 80 * RandDen, RandDen)

\* A verdict that is positive only for a patient who reported symptoms.
simulateAnalysisResult_ReadsSymptoms(r1, r2) ==
    LET detected == Detected(r1) /\ formData.symptoms # "" IN
    [ status |-> IF detected THEN "Tumor Detected" ELSE "No Tumor Detected",
      confidence |-> Confidence(r2),
      detected |-> detected ]

\* The object the timer callback of simulateAnalysis resolves the promise to,
\* from its two draws.
simulateAnalysisResult(r1, r2) ==
    [ status |-> IF Detected(r1) THEN "Tumor Detected" ELSE "No Tumor Detected",
      confidence |-> Confidence(r2),
      detected |-> Detected(r1) ]

\* setTimeout(callback, delay) for the analysis of submission id.
SetTimeout(pending, id, delay) ==
    Append(pending, [id |-> id, remaining |-> delay])

\* An analysis whose delay differs from one call to the next.
simulateAnalysis_VaryingDelay(pending, id) ==
    SetTimeout(pending, id, Delay \div id)

\* simulateAnalysis(): the promise is pending until its timer fires.
simulateAnalysis(pending, id) == SetTimeout(pending, id, Delay)

\* The position of the timer the event loop runs next: one that is due, the
\* longest overdue first, and among equals the one set first (0: none is due).
NextDue(pending) ==
    LET due == { i \in 1..Len(pending) : pending[i].remaining <= 0 } IN
    IF due = {} THEN 0
    ELSE CHOOSE i \in due :
            \A j \in due :
                \/ pending[i].remaining < pending[j].remaining
                \/ pending[i].remaining = pending[j].remaining /\ i <= j

\* A sequence without its i-th element.
RemoveAt(s, i) == SubSeq(s, 1, i - 1) \o SubSeq(s, i + 1, Len(s))

\* Time passes while no timer is due: a due callback runs before the clock
\* moves on.
Tick ==
    /\ timers # << >>
    /\ NextDue(timers) = 0
    /\ timers' = [i \in 1..Len(timers) |->
                    [timers[i] EXCEPT !.remaining = @ - TickMs]]
    /\ lastEvent' = "tick"
    /\ lastFiles' = << >>
    /\ UNCHANGED << queue, batch, gate >>
    /\ effects' = << >>
    /\ UNCHANGED << formData, mriPreview, ui, ghost >>

\* ----------------------------------------------------------------- submit
\* alert(text): a blocking dialog.
Alert(text) == effects' = << [kind |-> "alert", text |-> text] >>

\* The check of the required fields without its last operand.
RequiredMissing_NoEmail(form) == form.firstName = "" \/ form.lastName = ""

\* A check of the required fields that takes the age for one of them.
RequiredMissing_AgeToo(form) ==
    form.firstName = "" \/ form.lastName = "" \/ form.email = "" \/ form.age = ""

\* !formData.firstName || !formData.lastName || !formData.email
RequiredMissing(form) ==
    form.firstName = "" \/ form.lastName = "" \/ form.email = ""

\* The check of the MRI file without its flag.
MRIMissing_IgnoresFlag(form) == form.mriFile = Null

\* formData.hasMRI && !formData.mriFile
MRIMissing(form) == form.hasMRI = TRUE /\ form.mriFile = Null

\* The start of an analysis that also drops the result of the one before.
StartAnalysis_ResetsResult ==
    /\ accepted < MaxSubmits
    /\ isAnalyzing' = TRUE
    /\ showResults' = FALSE
    /\ analysisResult' = Null
    /\ timers' = simulateAnalysis(timers, accepted + 1)
    /\ accepted' = accepted + 1
    /\ UNCHANGED << resolved, lastResolved, lastDraws >>

\* The start of an analysis that first clears the timer of the one before.
StartAnalysis_Restarts ==
    /\ accepted < MaxSubmits
    /\ isAnalyzing' = TRUE
    /\ showResults' = FALSE
    /\ timers' = simulateAnalysis(<< >>, accepted + 1)
    /\ accepted' = accepted + 1
    /\ UNCHANGED << analysisResult, resolved, lastResolved, lastDraws >>

\* The start of an analysis that leaves the results section as it is.
StartAnalysis_KeepsResults ==
    /\ accepted < MaxSubmits
    /\ isAnalyzing' = TRUE
    /\ timers' = simulateAnalysis(timers, accepted + 1)
    /\ accepted' = accepted + 1
    /\ UNCHANGED << showResults, analysisResult, resolved, lastResolved, lastDraws >>

\* The start of an analysis behind a guard: nothing happens while one is
\* pending.
StartAnalysis_Guarded ==
    IF isAnalyzing
    THEN UNCHANGED << ui, timers, ghost >>
    ELSE /\ accepted < MaxSubmits
         /\ isAnalyzing' = TRUE
         /\ showResults' = FALSE
         /\ timers' = simulateAnalysis(timers, accepted + 1)
         /\ accepted' = accepted + 1
         /\ UNCHANGED << analysisResult, resolved, lastResolved, lastDraws >>

\* handleSubmit past its validation, up to its await: the flags are set and
\* the analysis is started.
StartAnalysis ==
    /\ accepted < MaxSubmits
    /\ isAnalyzing' = TRUE
    /\ showResults' = FALSE
    /\ timers' = simulateAnalysis(timers, accepted + 1)
    /\ accepted' = accepted + 1
    /\ UNCHANGED << analysisResult, resolved, lastResolved, lastDraws >>

\* A handleSubmit whose first check does not return: both alerts are raised
\* for a form that fails both checks.
handleSubmit_NoReturn ==
    /\ lastEvent' = "handleSubmit"
    /\ lastFiles' = << >>
    /\ UNCHANGED << queue, batch, gate >>
    /\ IF RequiredMissing(formData) /\ MRIMissing(formData)
       THEN /\ effects' = << [kind |-> "alert", text |-> RequiredAlert],
                            [kind |-> "alert", text |-> MRIAlert] >>
            /\ UNCHANGED << ui, timers, ghost >>
       ELSE IF RequiredMissing(formData)
       THEN /\ Alert(RequiredAlert)
            /\ UNCHANGED << ui, timers, ghost >>
       ELSE IF MRIMissing(formData)
       THEN /\ Alert(MRIAlert)
            /\ UNCHANGED << ui, timers, ghost >>
       ELSE /\ StartAnalysis
            /\ effects' = << >>
    /\ UNCHANGED << formData, mriPreview >>

\* A handleSubmit that empties the form once the submission is accepted.
handleSubmit_ClearsForm ==
    /\ lastEvent' = "handleSubmit"
    /\ lastFiles' = << >>
    /\ UNCHANGED << queue, batch, gate >>
    /\ IF RequiredMissing(formData)
       THEN /\ Alert(RequiredAlert)
            /\ UNCHANGED << formData, ui, timers, ghost >>
       ELSE IF MRIMissing(formData)
       THEN /\ Alert(MRIAlert)
            /\ UNCHANGED << formData, ui, timers, ghost >>
       ELSE /\ StartAnalysis
            /\ formData' = EmptyForm
            /\ effects' = << >>
    /\ UNCHANGED mriPreview

\* handleSubmit up to its await: the validation, and for a valid form the
\* start of the analysis.
handleSubmit ==
    /\ lastEvent' = "handleSubmit"
    /\ lastFiles' = << >>
    /\ UNCHANGED << queue, batch, gate >>
    /\ IF RequiredMissing(formData)
       THEN /\ Alert(RequiredAlert)
            /\ UNCHANGED << ui, timers, ghost >>
       ELSE IF MRIMissing(formData)
       THEN /\ Alert(MRIAlert)
            /\ UNCHANGED << ui, timers, ghost >>
       ELSE /\ StartAnalysis
            /\ effects' = << >>
    /\ UNCHANGED << formData, mriPreview >>

\* A continuation that shows the results without storing the one it awaited.
Continue_DropsResult(result) ==
    /\ analysisResult' = analysisResult
    /\ isAnalyzing' = FALSE
    /\ showResults' = TRUE

\* A continuation that leaves the flags alone while another analysis is
\* still pending.
Continue_WaitsForLast(result) ==
    /\ analysisResult' = result
    /\ IF Len(timers) > 1
       THEN UNCHANGED << isAnalyzing, showResults >>
       ELSE isAnalyzing' = FALSE /\ showResults' = TRUE

\* A continuation that never leaves the analyzing state.
Continue_LeavesAnalyzing(result) ==
    /\ analysisResult' = result
    /\ isAnalyzing' = isAnalyzing
    /\ showResults' = TRUE

\* What the continuation of handleSubmit does with the result it awaited.
Continue(result) ==
    /\ analysisResult' = result
    /\ isAnalyzing' = FALSE
    /\ showResults' = TRUE

\* A due timer fires: its callback draws the verdict and resolves the
\* promise, and the handleSubmit call awaiting it runs to its end.
TimerFires ==
    /\ NextDue(timers) # 0
    /\ LET i == NextDue(timers) IN
       /\ \E r1 \in DetectDraws, r2 \in ConfidenceDraws :
            /\ Continue(simulateAnalysisResult(r1, r2))
            /\ lastDraws' = << r1, r2 >>
       /\ lastResolved' = timers[i].id
       /\ timers' = RemoveAt(timers, i)
    /\ resolved' = resolved + 1
    /\ lastEvent' = "timer"
    /\ lastFiles' = << >>
    /\ UNCHANGED << queue, batch, gate >>
    /\ effects' = << >>
    /\ UNCHANGED << formData, mriPreview, accepted >>

\* ---------------------------------------------------------------- results
\* {showResults && analysisResult && ( ... )}
ResultsRendered == showResults = TRUE /\ analysisResult # Null

\* <button style={styles.resultBtn}>Preview Result</button>: no onClick, and
\* outside the form.
ClickPreviewResult ==
    /\ ResultsRendered
    /\ lastEvent' = "clickPreviewResult"
    /\ lastFiles' = << >>
    /\ UNCHANGED << queue, batch, gate >>
    /\ effects' = << >>
    /\ UNCHANGED << formData, mriPreview, ui, timers, ghost >>

\* <button style={styles.resultBtn}>Download PDF</button>: no onClick, and
\* outside the form.
ClickDownloadPDF ==
    /\ ResultsRendered
    /\ lastEvent' = "clickDownloadPDF"
    /\ lastFiles' = << >>
    /\ UNCHANGED << queue, batch, gate >>
    /\ effects' = << >>
    /\ UNCHANGED << formData, mriPreview, ui, timers, ghost >>

\* ------------------------------------------------------------------ reload
\* A page reload mounts the component anew; the timers of the old page are
\* gone with it.
Reload ==
    /\ formData' = EmptyForm
    /\ mriPreview' = Null
    /\ isAnalyzing' = FALSE
    /\ showResults' = FALSE
    /\ analysisResult' = Null
    /\ timers' = << >>
    /\ effects' = << >>
    /\ accepted' = 0
    /\ resolved' = 0
    /\ lastResolved' = 0
    /\ lastDraws' = << >>
    /\ lastEvent' = "reload"
    /\ lastFiles' = << >>
    /\ queue' = << >>
    /\ batch' = << >>
    /\ UNCHANGED gate

\* ----------------------------------------------------------- specification
Next ==
    \/ \E e \in InputEvents : handleInputChange(e)
    \/ \E files \in FileLists : handleFileChange(files)
    \/ handleSubmit
    \/ TimerFires
    \/ Tick
    \/ ClickPreviewResult
    \/ ClickDownloadPDF
    \/ Reload

Spec == Init /\ [][Next]_vars

\* The change events of the inputs that handleSubmit reads.
ReadInputEvents ==
    { e \in InputEvents : e.name \in {"firstName", "lastName", "email", "hasMRI"} }

\* The selections of a user who has one scan to pick.
OneFileLists ==
    { files \in FileLists : files = << >> \/ files[1].name = "scan1.png" }

\* One page load, with an event loop that lets time pass and runs the timer
\* callbacks that are due. The user types only in the inputs that
\* handleSubmit reads and has one file to pick.
NextOnPage ==
    \/ \E e \in ReadInputEvents : handleInputChange(e)
    \/ \E files \in OneFileLists : handleFileChange(files)
    \/ handleSubmit
    \/ TimerFires
    \/ Tick
    \/ ClickPreviewResult
    \/ ClickDownloadPDF

FairSpec ==
    /\ Init
    /\ [][NextOnPage]_vars
    /\ WF_vars(Tick)
    /\ WF_vars(TimerFires)

\* --------------------------------------------------------- batched updates
\* setFormData and setMriPreview do not change the state: React queues the
\* update and applies the queue at the next render. In Spec every handler is
\* followed by its render at once; here a render may find the updates of
\* several handler calls.

\* The handler calls whose updates one render can find (one more at most).
MaxBatch == 3

\* setFormData(prev => ...) of handleInputChange: the updater holds e.
InputUpdates(e) ==
    << [set |-> "formData", fn |-> "InputUpdate", arg |-> e] >>

\* The setFormData and setMriPreview calls of handleFileChange.
FileUpdates(files) ==
    IF files = << >> THEN << >>
    ELSE LET file == files[1] IN
         << [set |-> "formData", fn |-> "FileUpdate", arg |-> file] >> \o
         ( IF StartsWith(file.type, ImagePrefix)
           THEN << [set |-> "mriPreview", fn |-> "value",
                    arg |-> CreateObjectURL(file)] >>
           ELSE << >> )

\* One queued update applied to the state that the update before it left: an
\* updater function is called with it, a plain value replaces it.
Reduce(state, update) ==
    CASE update.fn = "InputUpdate" -> InputUpdate(state, update.arg)
      [] update.fn = "FileUpdate" -> FileUpdate(state, update.arg)
      [] OTHER -> update.arg

\* The state of a hook after React has applied the hook's queued updates,
\* in the order of the calls.
RECURSIVE ProcessQueue(_, _, _)
ProcessQueue(hook, state, q) ==
    IF q = << >> THEN state
    ELSE ProcessQueue(hook,
                      IF Head(q).set = hook THEN Reduce(state, Head(q)) ELSE state,
                      Tail(q))

\* handleInputChange, up to its return.
handleInputChangeBatched(e) ==
    /\ Len(queue) < MaxBatch
    /\ queue' = queue \o InputUpdates(e)
    /\ lastEvent' = "handleInputChange"
    /\ lastFiles' = << >>
    /\ batch' = << >>
    /\ effects' = << >>
    /\ UNCHANGED << formData, mriPreview, ui, timers, ghost, gate >>

\* handleFileChange, up to its return; the file input is there if the last
\* render found formData.hasMRI true.
handleFileChangeBatched(files) ==
    /\ formData.hasMRI = TRUE
    /\ Len(queue) < MaxBatch
    /\ queue' = queue \o FileUpdates(files)
    /\ lastEvent' = "handleFileChange"
    /\ lastFiles' = files
    /\ batch' = << >>
    /\ effects' = << >>
    /\ UNCHANGED << formData, mriPreview, ui, timers, ghost, gate >>

\* React renders the component with the queued updates applied.
Render ==
    /\ queue # << >>
    /\ formData' = ProcessQueue("formData", formData, queue)
    /\ mriPreview' = ProcessQueue("mriPreview", mriPreview, queue)
    /\ queue' = << >>
    /\ batch' = queue
    /\ lastEvent' = "render"
    /\ lastFiles' = << >>
    /\ effects' = << >>
    /\ UNCHANGED << ui, timers, ghost, gate >>

\* The change events of three of the inputs.
BatchInputEvents ==
    { e \in InputEvents : e.name \in {"firstName", "lastName", "hasMRI"} }

\* A form that is edited and never submitted, the user having one scan to
\* pick.
NextBatched ==
    \/ \E e \in BatchInputEvents : handleInputChangeBatched(e)
    \/ \E files \in OneFileLists : handleFileChangeBatched(files)
    \/ Render

BatchedSpec == Init /\ [][NextBatched]_vars

\* --------------------------------------------------- login-gated iteration
\* The iteration of the component in lines 1593-1893 (commented out): a home
\* view and a services view with the form, behind a login flag. Its formData
\* and its handleInputChange are those of the live component; it has no
\* mriPreview.

LoginAlert == "Please login first"

\* The iteration as mounted.
LoginInit ==
    /\ formData = EmptyForm
    /\ mriPreview = Null
    /\ isAnalyzing = FALSE
    /\ showResults = FALSE
    /\ analysisResult = Null
    /\ timers = << >>
    /\ effects = << >>
    /\ accepted = 0
    /\ resolved = 0
    /\ lastResolved = 0
    /\ lastDraws = << >>
    /\ lastEvent = "load"
    /\ lastFiles = << >>
    /\ queue = << >>
    /\ batch = << >>
    /\ isLoggedIn = FALSE
    /\ showDetection = FALSE

\* window.scrollTo({ top: 0, behavior: 'smooth' })
ScrollTo(top) == effects' = << [kind |-> "scrollTo", top |-> top] >>

\* A handleDetectionClick whose check does not return: the alert, and the
\* services view all the same.
handleDetectionClick_NoReturn ==
    /\ lastEvent' = "handleDetectionClick"
    /\ lastFiles' = << >>
    /\ showDetection' = TRUE
    /\ effects' = IF isLoggedIn = FALSE
                  THEN << [kind |-> "alert", text |-> LoginAlert],
                          [kind |-> "scrollTo", top |-> 0] >>
                  ELSE << [kind |-> "scrollTo", top |-> 0] >>
    /\ UNCHANGED << isLoggedIn, formData, mriPreview, ui, timers, ghost,
                    queue, batch >>

\* The Services link of the header.
handleDetectionClick ==
    /\ lastEvent' = "handleDetectionClick"
    /\ lastFiles' = << >>
    /\ IF isLoggedIn = FALSE
       THEN /\ Alert(LoginAlert)
            /\ UNCHANGED showDetection
       ELSE /\ showDetection' = TRUE
            /\ ScrollTo(0)
    /\ UNCHANGED << isLoggedIn, formData, mriPreview, ui, timers, ghost,
                    queue, batch >>

\* The login button of the header: () => setIsLoggedIn(true)
onLoginClick ==
    /\ lastEvent' = "onLoginClick"
    /\ lastFiles' = << >>
    /\ isLoggedIn' = TRUE
    /\ effects' = << >>
    /\ UNCHANGED << showDetection, formData, mriPreview, ui, timers, ghost,
                    queue, batch >>

\* The logo and the Home link of the header.
scrollToTop ==
    /\ lastEvent' = "scrollToTop"
    /\ lastFiles' = << >>
    /\ showDetection' = FALSE
    /\ ScrollTo(0)
    /\ UNCHANGED << isLoggedIn, formData, mriPreview, ui, timers, ghost,
                    queue, batch >>

\* The inputs of the form are rendered in the services view only.
ServicesInputChange(e) ==
    /\ showDetection = TRUE
    /\ handleInputChange(e)

\* One page load of the iteration: the header, and the editing of the form.
NextLogin ==
    \/ handleDetectionClick
    \/ onLoginClick
    \/ scrollToTop
    \/ \E e \in InputEvents : ServicesInputChange(e)

LoginSpec == LoginInit /\ [][NextLogin]_vars

\* -------------------------------------------------------------------- hero
\* Hero({ scrollToSection }) of components/Hero.jsx: a function of its props
\* with no hook in it. A call of the scrollToSection prop is an effect of the
\* task; what the callback does is the parent's.
CallProp(fn, arg) == effects' = << [kind |-> "call", fn |-> fn, arg |-> arg] >>

\* <button className="contact-btn" onClick={() => scrollToSection('footer')}>
ClickContactUs ==
    /\ lastEvent' = "clickContactUs"
    /\ lastFiles' = << >>
    /\ CallProp("scrollToSection", "footer")
    /\ UNCHANGED << formData, mriPreview, ui, timers, ghost, queue, batch, gate >>

\* A Live Your Life button with the onClick of the button below it.
ClickLiveYourLife_Scrolls ==
    /\ lastEvent' = "clickLiveYourLife"
    /\ lastFiles' = << >>
    /\ CallProp("scrollToSection", "footer")
    /\ UNCHANGED << formData, mriPreview, ui, timers, ghost, queue, batch, gate >>

\* <button className="liveLife-btn">: no onClick.
ClickLiveYourLife ==
    /\ lastEvent' = "clickLiveYourLife"
    /\ lastFiles' = << >>
    /\ effects' = << >>
    /\ UNCHANGED << formData, mriPreview, ui, timers, ghost, queue, batch, gate >>

\* One page load of a page that shows the hero banner above the form.
NextHero ==
    \/ NextOnPage
    \/ ClickContactUs
    \/ ClickLiveYourLife

HeroSpec == Init /\ [][NextHero]_vars

\* ------------------------------------------------------------------ claims
\* What a submission that is turned away looks like in a step: one alert is
\* the whole effect of the task, no timer is set and the state is kept.
RejectedStep ==
    /\ Len(effects') = 1
    /\ effects'[1].kind = "alert"
    /\ timers' = timers
    /\ formData' = formData
    /\ isAnalyzing' = isAnalyzing
    /\ showResults' = showResults
    /\ analysisResult' = analysisResult

\* What an accepted submission looks like in a step: no alert, one more
\* pending analysis, and the component is analyzing.
AcceptedStep ==
    /\ effects' = << >>
    /\ Len(timers') = Len(timers) + 1
    /\ accepted' = accepted + 1
    /\ isAnalyzing' = TRUE

RequiredFilled ==
    formData.firstName # "" /\ formData.lastName # "" /\ formData.email # ""

\* C1: whenever handleSubmit runs with firstName, lastName or email empty, it
\* raises exactly one alert, starts no analysis, and leaves formData,
\* isAnalyzing, showResults and analysisResult as they were.
C1_RejectsMissingRequired ==
    [][ (lastEvent' = "handleSubmit" /\ ~RequiredFilled) => RejectedStep ]_vars

\* A submission was just turned away for its empty email alone.
C1_Witness ==
    /\ lastEvent = "handleSubmit"
    /\ formData.firstName # "" /\ formData.lastName # "" /\ formData.email = ""
    /\ Len(effects) = 1

\* C2: with the three required fields filled, handleSubmit is turned away
\* when hasMRI is true and mriFile is null, and is accepted whenever hasMRI is
\* false, with or without a file.
C2_MRIRequiredOnlyWithFlag ==
    [][ (lastEvent' = "handleSubmit" /\ RequiredFilled) =>
            /\ (formData.hasMRI = TRUE /\ formData.mriFile = Null) => RejectedStep
            /\ formData.hasMRI = FALSE => AcceptedStep ]_vars

\* A submission was just accepted with the flag off and a file still attached.
C2_Witness ==
    /\ lastEvent = "handleSubmit"
    /\ RequiredFilled
    /\ formData.hasMRI = FALSE
    /\ formData.mriFile # Null
    /\ effects = << >>
    /\ Len(timers) = 1

\* C3: the confidence of every analysis result is at least 80.00 and
\* strictly less than 100.00 (the model holds it in hundredths).
C3_ConfidenceIn80To100 ==
    analysisResult # Null =>
        /\ analysisResult.confidence >= 8000
        /\ analysisResult.confidence < 10000

\* C4: analysisResult is non-null only after a resolution, the resolutions
\* never outnumber the accepted submissions, and within one page load no task
\* other than a resolution changes analysisResult.
C4_ResultOnlyFromResolution ==
    /\ [](analysisResult # Null => resolved >= 1)
    /\ [](resolved <= accepted)
    /\ [][ (analysisResult' # analysisResult /\ lastEvent' # "reload") =>
                (lastEvent' = "timer" /\ resolved' = resolved + 1) ]_vars

\* The first resolution has just stored a result.
C4_Witness ==
    /\ lastEvent = "timer"
    /\ analysisResult # Null
    /\ resolved = 1
    /\ accepted = 1

\* C5: a valid handleSubmit that runs while an analysis is pending
\* (isAnalyzing true) is accepted and starts one more analysis.
C5_NoSubmissionGuard ==
    [][ ( /\ lastEvent' = "handleSubmit"
          /\ RequiredFilled
          /\ ~(formData.hasMRI = TRUE /\ formData.mriFile = Null)
          /\ isAnalyzing = TRUE
          /\ timers # << >> ) => AcceptedStep ]_vars

\* Two analyses are pending at once, the second just started.
C5_Witness ==
    /\ lastEvent = "handleSubmit"
    /\ isAnalyzing = TRUE
    /\ Len(timers) = 2

\* The analysis of submission i is pending.
Pending(i) == \E k \in 1..Len(timers) : timers[k].id = i

\* C6: every resolution stores its own result in analysisResult, the
\* analyses resolve in the order their submissions were accepted, and once
\* none is pending analysisResult is the result of the last accepted one.
C6_LastResolvedWins ==
    /\ [][ lastEvent' = "timer" =>
            analysisResult' = simulateAnalysisResult(lastDraws'[1], lastDraws'[2]) ]_vars
    /\ [](lastResolved = resolved)
    /\ []( (timers = << >> /\ accepted > 0) =>
            /\ lastResolved = accepted
            /\ analysisResult = simulateAnalysisResult(lastDraws[1], lastDraws[2]) )

\* Of two analyses that were pending together the first has just resolved.
C6_Witness ==
    /\ lastEvent = "timer"
    /\ accepted = 2
    /\ lastResolved = 1
    /\ Pending(2)

\* C7: every pending analysis resolves in the end, no task but its own
\* resolution takes a pending analysis away, and once none is pending after
\* a submission isAnalyzing is false and showResults is true.
C7_FireAndForget ==
    /\ \A i \in 1..MaxSubmits : Pending(i) ~> (lastResolved = i /\ ~Pending(i))
    /\ [][ \A i \in 1..MaxSubmits :
            (Pending(i) /\ ~Pending(i)') =>
                (lastEvent' = "timer" /\ lastResolved' = i) ]_vars
    /\ []( (timers = << >> /\ accepted > 0) =>
            (isAnalyzing = FALSE /\ showResults = TRUE) )

\* Every analysis of the page load has resolved, the last one just now, on a
\* form that the user left with a file picked and the email cleared.
C7_Witness ==
    /\ lastEvent = "timer"
    /\ timers = << >>
    /\ accepted = MaxSubmits
    /\ resolved = MaxSubmits
    /\ formData.mriFile # Null
    /\ formData.email = ""

\* The task that just ran raised an alert, or emitted a download.
Raised(kind) == \E k \in 1..Len(effects) : effects[k].kind = kind

\* C8: with the results displayed, a click on Preview Result raises an alert
\* and a click on Download PDF emits a report.
C8_ResultButtonsAct ==
    /\ lastEvent = "clickPreviewResult" => Raised("alert")
    /\ lastEvent = "clickDownloadPDF" => Raised("download")

\* C9: on page load and after every reload the six text fields are empty,
\* hasMRI is false, mriFile and mriPreview are null, isAnalyzing and
\* showResults are false, analysisResult is null and nothing is pending.
C9_CreatedEmpty ==
    lastEvent \in {"load", "reload"} =>
        /\ \A f \in TextFields : formData[f] = ""
        /\ formData.hasMRI = FALSE
        /\ formData.mriFile = Null
        /\ mriPreview = Null
        /\ isAnalyzing = FALSE
        /\ showResults = FALSE
        /\ analysisResult = Null
        /\ timers = << >>

\* The page has just been reloaded.
C9_Witness == lastEvent = "reload"

\* C10: handleInputChange for the input named n changes no field of formData
\* but n, and leaves mriPreview, isAnalyzing, showResults, analysisResult and
\* the pending analyses as they were.
C10_InputChangesOneField ==
    [][ lastEvent' = "handleInputChange" =>
            /\ DOMAIN formData' = DOMAIN formData
            /\ \A n \in DOMAIN formData :
                    formData'[n] # formData[n] =>
                        /\ \E e \in InputEvents :
                                e.name = n /\ formData' = InputUpdate(formData, e)
                        /\ \A f \in DOMAIN formData \ {n} :
                                formData'[f] = formData[f]
            /\ mriPreview' = mriPreview
            /\ isAnalyzing' = isAnalyzing
            /\ showResults' = showResults
            /\ analysisResult' = analysisResult
            /\ timers' = timers ]_vars

\* The age was just typed in, with a previewed file attached, a result
\* stored and an analysis pending.
C10_Witness ==
    /\ lastEvent = "handleInputChange"
    /\ formData.age # ""
    /\ formData.mriFile # Null
    /\ mriPreview # Null
    /\ analysisResult # Null
    /\ timers # << >>

\* The result that two draws give, with no part of the form in it.
VerdictOfDraws(r1, r2) ==
    [ status |-> IF 2 * r1 > RandDen THEN "Tumor Detected" ELSE "No Tumor Detected",
      confidence |-> (2 * 100 * (20 * r2 + 80 * RandDen) + RandDen) \div (2 * RandDen),
      detected |-> 2 * r1 > RandDen ]

\* A timer is due.
TimerDue == \E k \in 1..Len(timers) : timers[k].remaining <= 0

\* C11: no handleSubmit, accepted or turned away, and no resolution changes
\* formData or mriPreview; an edit of the form leaves the pending analyses and
\* the flags as they are; and whatever the form holds, a due analysis can
\* resolve, with each of the results that the draws can give.
C11_FormReadNotWritten ==
    /\ [][ lastEvent' \in {"handleSubmit", "timer"} =>
            (formData' = formData /\ mriPreview' = mriPreview) ]_vars
    /\ [][ lastEvent' \in {"handleInputChange", "handleFileChange"} =>
            /\ timers' = timers
            /\ isAnalyzing' = isAnalyzing
            /\ showResults' = showResults
            /\ analysisResult' = analysisResult ]_vars
    /\ [](TimerDue =>
            \A r1 \in DetectDraws, r2 \in ConfidenceDraws :
                ENABLED (TimerFires /\ analysisResult' = VerdictOfDraws(r1, r2)))

\* The only analysis of the page load has just resolved, on a form whose
\* email was cleared while the analysis was pending.
C11_Witness ==
    /\ lastEvent = "timer"
    /\ accepted = 1
    /\ resolved = 1
    /\ formData.email = ""
    /\ formData.firstName # ""

\* C12: the status is one of two labels, it is "Tumor Detected" exactly when
\* detected is true, and detected is true exactly when the first draw of the
\* callback is greater than one half.
C12_ResultConsistent ==
    analysisResult # Null =>
        /\ analysisResult.status \in {"Tumor Detected", "No Tumor Detected"}
        /\ analysisResult.status = "Tumor Detected" <=> analysisResult.detected = TRUE
        /\ analysisResult.detected = TRUE <=> 2 * lastDraws[1] > RandDen

\* A result drawn with exactly one half: not detected.
C12_Witness ==
    /\ analysisResult # Null
    /\ 2 * lastDraws[1] = RandDen
    /\ analysisResult.detected = FALSE
    /\ analysisResult.status = "No Tumor Detected"

\* C13: the stored result is a function of the draws of its callback alone,
\* so two runs that see the same draws store the same result whatever the
\* form fields and the attached file are.
C13_VerdictIgnoresForm ==
    analysisResult # Null =>
        analysisResult = VerdictOfDraws(lastDraws[1], lastDraws[2])

\* A negative verdict on a form with symptoms and a file, from a draw that
\* gives a negative verdict on any form.
C13_Witness ==
    /\ analysisResult # Null
    /\ analysisResult.detected = FALSE
    /\ formData.symptoms # ""
    /\ formData.mriFile # Null
    /\ lastEvent = "timer"

\* C14: within a page load a stored result never goes back to null, an
\* accepted submission hides the results at once, and the stored result is
\* replaced only by a resolution, that of a submission accepted later than
\* the one whose result was stored.
C14_ResultStaysUntilOverwritten ==
    /\ [][ (analysisResult # Null /\ lastEvent' # "reload") =>
            analysisResult' # Null ]_vars
    /\ [][ (lastEvent' = "handleSubmit" /\ accepted' = accepted + 1) =>
            (showResults' = FALSE /\ analysisResult' = analysisResult) ]_vars
    /\ [][ (analysisResult # Null /\ analysisResult' # analysisResult
                /\ lastEvent' # "reload") =>
            (lastEvent' = "timer" /\ lastResolved' > lastResolved) ]_vars

\* The second submission was just accepted: the result of the first is
\* still stored, and hidden.
C14_Witness ==
    /\ lastEvent = "handleSubmit"
    /\ accepted = 2
    /\ resolved = 1
    /\ analysisResult # Null
    /\ showResults = FALSE

\* C15: whenever showResults is true, analysisResult is non-null.
C15_ShownOnlyWithResult == showResults = TRUE => analysisResult # Null

\* The results are shown, with a result to read.
C15_Witness ==
    /\ showResults = TRUE
    /\ analysisResult # Null
    /\ analysisResult.status = "Tumor Detected"
    /\ lastEvent = "timer"

\* C16: an accepted handleSubmit leaves isAnalyzing true and showResults
\* false, a resolution leaves a result stored, isAnalyzing false and
\* showResults true, and an analysis that starts with none pending and is
\* joined by no other keeps isAnalyzing true and showResults false for as
\* long as it is pending.
C16_AnalyzingWhilePending ==
    /\ [][ (lastEvent' = "handleSubmit" /\ accepted' = accepted + 1) =>
            (isAnalyzing' = TRUE /\ showResults' = FALSE) ]_vars
    /\ [][ lastEvent' = "timer" =>
            /\ analysisResult' # Null
            /\ isAnalyzing' = FALSE
            /\ showResults' = TRUE ]_vars
    /\ [][ ( /\ Len(timers) = 1 /\ Len(timers') = 1
             /\ isAnalyzing = TRUE /\ showResults = FALSE ) =>
            (isAnalyzing' = TRUE /\ showResults' = FALSE) ]_vars
    /\ [][ (Len(timers) = 1 /\ Len(timers') = 0 /\ lastEvent' # "reload") =>
            (isAnalyzing' = FALSE /\ showResults' = TRUE) ]_vars
    /\ [](timers = << >> => isAnalyzing = FALSE)

\* The only analysis of the page load is half way through its delay.
C16_Witness ==
    /\ lastEvent = "tick"
    /\ accepted = 1
    /\ Len(timers) = 1
    /\ timers[1].remaining > 0
    /\ timers[1].remaining < Delay
    /\ isAnalyzing = TRUE
    /\ showResults = FALSE

\* C17: when an analysis resolves while another is still pending, the state
\* it leaves has isAnalyzing false and showResults true, with its own result
\* stored; and a resolution that finds the results shown leaves them shown:
\* only an accepted submission or a reload hides them.
C17_RaceShowsIntermediateResult ==
    /\ [][ (lastEvent' = "timer" /\ timers' # << >>) =>
            /\ isAnalyzing' = FALSE
            /\ showResults' = TRUE
            /\ analysisResult' = VerdictOfDraws(lastDraws'[1], lastDraws'[2]) ]_vars
    /\ [][ (showResults = TRUE /\ showResults' = FALSE) =>
            \/ lastEvent' = "handleSubmit" /\ accepted' = accepted + 1
            \/ lastEvent' = "reload" ]_vars

\* The first of two racing analyses has resolved: its result is shown, the
\* component no longer says it is analyzing, and the second is still pending.
C17_Witness ==
    /\ lastEvent = "timer"
    /\ resolved = 1
    /\ Len(timers) = 1
    /\ timers[1].id = 2
    /\ isAnalyzing = FALSE
    /\ showResults = TRUE
    /\ analysisResult # Null

\* C18: with no analysis pending isAnalyzing is false, and if a submission
\* was ever accepted then showResults is true and analysisResult is non-null.
C18_NeverStuckAnalyzing ==
    timers = << >> =>
        /\ isAnalyzing = FALSE
        /\ accepted > 0 => (showResults = TRUE /\ analysisResult # Null)

\* Both analyses of the page load have resolved and the page is at rest.
C18_Witness ==
    /\ timers = << >>
    /\ accepted = 2
    /\ resolved = 2
    /\ isAnalyzing = FALSE
    /\ showResults = TRUE

\* The texts of the alerts that the task that just ran raised.
AlertTexts == { effects[k].text : k \in { j \in 1..Len(effects) : effects[j].kind = "alert" } }

\* C19: a handleSubmit raises at most one alert; with a required text field
\* empty it is the alert "Please fill all required fields", also when hasMRI
\* is true and no file is attached; the alert "Please upload MRI image" is
\* raised only with firstName, lastName and email all filled.
C19_ValidationOrdered ==
    lastEvent = "handleSubmit" =>
        /\ Len(effects) <= 1
        /\ ~RequiredFilled => AlertTexts = {"Please fill all required fields"}
        /\ "Please upload MRI image" \in AlertTexts =>
                (RequiredFilled /\ formData.hasMRI = TRUE /\ formData.mriFile = Null)

\* A form that fails both checks was just submitted.
C19_Witness ==
    /\ lastEvent = "handleSubmit"
    /\ formData.lastName = ""
    /\ formData.hasMRI = TRUE
    /\ formData.mriFile = Null
    /\ Len(effects) = 1

\* C20: a handleSubmit with firstName, lastName and email filled, and with a
\* file attached if hasMRI is true, is accepted whatever age, phone and
\* symptoms hold; and a handleSubmit is turned away only for one of these two
\* conditions.
C20_OnlyRequiredFieldsGate ==
    [][ lastEvent' = "handleSubmit" =>
            /\ (RequiredFilled /\ (formData.hasMRI = TRUE => formData.mriFile # Null))
                    => AcceptedStep
            /\ effects' # << >> =>
                    \/ ~RequiredFilled
                    \/ formData.hasMRI = TRUE /\ formData.mriFile = Null ]_vars

\* A submission was just accepted with age, phone and symptoms all empty.
C20_Witness ==
    /\ lastEvent = "handleSubmit"
    /\ effects = << >>
    /\ Len(timers) = 1
    /\ timers[1].remaining = Delay
    /\ formData.age = ""
    /\ formData.phone = ""
    /\ formData.symptoms = ""

\* C21: a handleFileChange with an empty selection leaves formData.mriFile
\* and mriPreview, and the rest of formData, as they were; with a file
\* selected it leaves that file in formData.mriFile and every other field of
\* formData as it was.
C21_EmptySelectionNoOp ==
    [][ lastEvent' = "handleFileChange" =>
            /\ DOMAIN formData' = DOMAIN formData
            /\ \A f \in DOMAIN formData \ {"mriFile"} : formData'[f] = formData[f]
            /\ IF lastFiles' = << >>
               THEN formData'.mriFile = formData.mriFile /\ mriPreview' = mriPreview
               ELSE formData'.mriFile = lastFiles'[1] ]_vars

\* The picker was just cancelled with a previewed image attached.
C21_Witness ==
    /\ lastEvent = "handleFileChange"
    /\ lastFiles = << >>
    /\ formData.mriFile # Null
    /\ mriPreview # Null
    /\ formData.firstName # ""

\* C22: whenever mriPreview is non-null, formData.mriFile is non-null and
\* mriPreview is the object URL of the file that formData.mriFile holds.
C22_PreviewOfAttachedFile ==
    mriPreview # Null =>
        /\ formData.mriFile # Null
        /\ mriPreview = CreateObjectURL(formData.mriFile)

\* C23: formData.hasMRI is always a boolean; within a page load only a
\* handleInputChange changes it, to the checked state of the checkbox, and
\* the step that changes it leaves formData.mriFile and mriPreview as they
\* were, so that a file attached before the flag was cleared is still
\* attached when it is set again.
C23_FlagIsBooleanAndKeepsFile ==
    /\ [](formData.hasMRI \in BOOLEAN)
    /\ [][ (formData'.hasMRI # formData.hasMRI /\ lastEvent' # "reload") =>
            /\ lastEvent' = "handleInputChange"
            /\ \E e \in InputEvents :
                    /\ e.type = "checkbox"
                    /\ formData' = [formData EXCEPT !.hasMRI = e.checked]
            /\ formData'.mriFile = formData.mriFile
            /\ mriPreview' = mriPreview ]_vars

\* The flag was cleared after a file was attached: the file and its preview
\* are still there.
C23_Witness ==
    /\ lastEvent = "handleInputChange"
    /\ formData.hasMRI = FALSE
    /\ formData.mriFile # Null
    /\ mriPreview # Null
    /\ \A f \in TextFields : formData[f] = ""

\* The field of formData that a queued update writes, and what it writes.
FieldOf(u) == IF u.fn = "FileUpdate" THEN "mriFile" ELSE u.arg.name

ValueOf(u) ==
    IF u.fn = "FileUpdate" THEN u.arg
    ELSE IF u.arg.type = "checkbox" THEN u.arg.checked ELSE u.arg.value

\* The positions of the updates of a batch that write field n of formData.
Writes(q, n) ==
    { k \in 1..Len(q) : q[k].set = "formData" /\ FieldOf(q[k]) = n }

\* The position of the last of them.
LastWrite(q, n) == CHOOSE k \in Writes(q, n) : \A j \in Writes(q, n) : j <= k

\* C24: after a render, every field of formData that an update of the
\* rendered batch wrote holds the value of the last update that wrote it,
\* whatever the other updates of the batch were and in whatever order they
\* were queued; and until the render a handler only adds its own updates
\* behind the ones that are queued, and a render leaves none behind.
C24_NoUpdateLost ==
    /\ [](lastEvent = "render" =>
            \A n \in DOMAIN formData :
                Writes(batch, n) # {} =>
                    formData[n] = ValueOf(batch[LastWrite(batch, n)]))
    /\ [][ lastEvent' \in {"handleInputChange", "handleFileChange"} =>
            /\ Len(queue') >= Len(queue)
            /\ SubSeq(queue', 1, Len(queue)) = queue
            /\ \/ \E e \in InputEvents :
                    SubSeq(queue', Len(queue) + 1, Len(queue')) = InputUpdates(e)
               \/ SubSeq(queue', Len(queue) + 1, Len(queue')) = FileUpdates(lastFiles') ]_vars
    /\ [][ lastEvent' = "render" => (batch' = queue /\ queue' = << >>) ]_vars

\* One render has just applied updates to three distinct fields, queued by
\* three handler calls since the render before it.
C24_Witness ==
    /\ lastEvent = "render"
    /\ Len(batch) >= 3
    /\ Writes(batch, "firstName") # {}
    /\ Writes(batch, "lastName") # {}
    /\ Writes(batch, "mriFile") # {}
    /\ formData.firstName = "a"
    /\ formData.lastName = "a"
    /\ formData.mriFile # Null

\* C25: in the login-gated iteration isLoggedIn and showDetection are false
\* on load; isLoggedIn changes only in an onLoginClick, which leaves it true,
\* and once true it stays true; a handleDetectionClick with isLoggedIn false
\* raises the one alert "Please login first" and leaves showDetection as it
\* was; and showDetection becomes true only in a handleDetectionClick that
\* finds isLoggedIn true.
C25_LoginIsAToggle ==
    /\ [](lastEvent = "load" => (isLoggedIn = FALSE /\ showDetection = FALSE))
    /\ [][ lastEvent' = "onLoginClick" => isLoggedIn' = TRUE ]_vars
    /\ [][ isLoggedIn' # isLoggedIn => lastEvent' = "onLoginClick" ]_vars
    /\ [][ isLoggedIn = TRUE => isLoggedIn' = TRUE ]_vars
    /\ [][ (lastEvent' = "handleDetectionClick" /\ isLoggedIn = FALSE) =>
            /\ effects' = << [kind |-> "alert", text |-> "Please login first"] >>
            /\ showDetection' = showDetection ]_vars
    /\ [][ (showDetection = FALSE /\ showDetection' = TRUE) =>
            (lastEvent' = "handleDetectionClick" /\ isLoggedIn = TRUE) ]_vars

\* The Services link was just clicked without a login: an alert, and still
\* the home view.
C25_Witness ==
    /\ lastEvent = "handleDetectionClick"
    /\ isLoggedIn = FALSE
    /\ showDetection = FALSE
    /\ Len(effects) = 1
    /\ effects[1].kind = "alert"

\* C26: a click on Contact Us is one call of scrollToSection with the
\* argument 'footer' and nothing else, a click on Live Your Life calls
\* nothing, and neither click changes any state of the page.
C26_HeroOnlyCallsScroll ==
    /\ [](lastEvent = "clickContactUs" =>
            effects = << [kind |-> "call", fn |-> "scrollToSection",
                          arg |-> "footer"] >>)
    /\ [](lastEvent = "clickLiveYourLife" => effects = << >>)
    /\ [][ lastEvent' \in {"clickContactUs", "clickLiveYourLife"} =>
            /\ formData' = formData
            /\ mriPreview' = mriPreview
            /\ isAnalyzing' = isAnalyzing
            /\ showResults' = showResults
            /\ analysisResult' = analysisResult
            /\ timers' = timers ]_vars

\* Contact Us was just clicked while an analysis was pending.
C26_Witness ==
    /\ lastEvent = "clickContactUs"
    /\ Len(effects) = 1
    /\ effects[1].arg = "footer"
    /\ timers # << >>
    /\ isAnalyzing = TRUE

====
